---- MODULE Spec2Model ----
(***************************************************************************)
(* Robot bartender: the voice-controlled program (start_here_voice.py) and *)
(* the MCP tool server (programs/mcp_bartender.py).                        *)
(*                                                                         *)
(* A behaviour runs ONE of the two programs; Init chooses which.  Both     *)
(* drive the same robot cell, so the robot's state (arm, gripper lines)    *)
(* and the inventory are shared variables.                                 *)
(*                                                                         *)
(* Strings are sequences of one-character strings so that str.lower() is   *)
(* computed, not assumed.  A Pose is named by the constant that holds it.  *)
(***************************************************************************)
EXTENDS Integers, Sequences, FiniteSets, TLC

\* ------------------------------------------------------------------ bounds
\* tokens the capture worker may enqueue in one run
MaxProduced == 2
\* collaborator calls (move, write, connect) that may fail in one run
MaxFailures == 2
\* tool calls the MCP client may issue in one run
MaxCalls == 4
\* start() calls on one VoiceListener that get as far as making a thread
MaxStarts == 2
\* start() and stop() calls made on one VoiceListener
MaxListenerCalls == 5
\* for a client that does not wait for the answers: the tool calls it may
\* issue, how many of them while another is unanswered, and the collaborator
\* calls that may fail
MaxOverlapCalls == 3
MaxOtherCalls == 1
MaxOverlapFailures == 1

\* ----------------------------------------------------------------- strings
UpperToLower ==
    [A |-> "a", B |-> "b", C |-> "c", D |-> "d", E |-> "e", F |-> "f",
     G |-> "g", H |-> "h", I |-> "i", J |-> "j", K |-> "k", L |-> "l",
     M |-> "m", N |-> "n", O |-> "o", P |-> "p", Q |-> "q", R |-> "r",
     S |-> "s", T |-> "t", U |-> "u", V |-> "v", W |-> "w", X |-> "x",
     Y |-> "y", Z |-> "z"]

LowerChar(ch) ==
    IF ch \in DOMAIN UpperToLower THEN UpperToLower[ch] ELSE ch

\* mutant of Lower: the string is passed on as it was spoken/typed
LowerIdentity(s) == s

\* str.lower()
Lower(s) == [i \in DOMAIN s |-> LowerChar(s[i])]

coke == <<"c", "o", "k", "e">>
redbull == <<"r", "e", "d", "b", "u", "l", "l">>
fanta == <<"f", "a", "n", "t", "a">>
sting == <<"s", "t", "i", "n", "g">>
water == <<"w", "a", "t", "e", "r">>
\* differently-cased spellings that a recognizer or a client may deliver
Coke == <<"C", "o", "k", "e">>
FANTA == <<"F", "A", "N", "T", "A">>
STING == <<"S", "T", "I", "N", "G">>
EmptyStr == <<>>

\* ------------------------------------------------------------------- poses
\* a Pose is the calibrated constant it comes from and a displacement along z
Pose(name) == [name |-> name, dz |-> 0]

\* start_here_voice.py
start_pose == Pose("start_pose")
coke0 == Pose("coke0")
coke1 == Pose("coke1")
redbull0 == Pose("redbull0")
redbull1 == Pose("redbull1")
fanta0 == Pose("fanta0")
customer == Pose("customer")
\* programs/mcp_bartender.py
START_POSE == Pose("START_POSE")
COKE_0 == Pose("COKE_0")
COKE_1 == Pose("COKE_1")
REDBULL_0 == Pose("REDBULL_0")
REDBULL_1 == Pose("REDBULL_1")
FANTA_0 == Pose("FANTA_0")
CUSTOMER == Pose("CUSTOMER")

\* target_pose @ (0, 0, dz, 0, 0, 0)
Offset(pose, dz) == [pose EXCEPT !.dz = @ + dz]

\* where the arm is when a trajectory was interrupted part-way
Midway == Pose("midway")

\* start_here_voice.py: INVENTORY ("sting" reuses the redbull poses)
INVENTORY ==
    (coke :> <<coke0, coke1>>) @@ (redbull :> <<redbull0, redbull1>>)
    @@ (fanta :> <<fanta0>>) @@ (sting :> <<redbull0, redbull1>>)

\* mcp_bartender.py: INITIAL_INVENTORY
INITIAL_INVENTORY ==
    (coke :> <<COKE_0, COKE_1>>) @@ (redbull :> <<REDBULL_0, REDBULL_1>>)
    @@ (fanta :> <<FANTA_0>>)

\* {k: list(v) for k, v in d.items()}
CopyInventory(inv) == [k \in DOMAIN inv |-> inv[k]]

\* dict with no key
EmptyDict == <<>>

\* ---------------------------------------------------------------- commands
\* what the program sends to its collaborators
Move(waypoints) == [cmd |-> "move", waypoints |-> waypoints]
Write(line, value) == [cmd |-> "write", line |-> line, value |-> value]
Dwell(seconds) == [cmd |-> "dwell", seconds |-> seconds]

\* results of an awaited collaborator call: it returns or it raises
CallResults == {"ok", "failed"}

\* the arm after plan() and execute() from `from` along `waypoints`: when
\* plan() raises the arm has not moved, when execute() raises it stopped
\* somewhere on the trajectory
ArmAfterMove(from, waypoints, result) ==
    IF result = "ok" THEN {waypoints[Len(waypoints)]} ELSE {from, Midway}

VARIABLES
    program,        \* "voice" | "mcp": which of the two programs this run is
    inventory,      \* beverage -> remaining pick poses
    tool_out,       \* the two digital gripper lines
    armAt,          \* where the arm is
    trace,          \* commands issued since the serve or go_home began
    outcome,        \* result of the serve that returned last (or "none")
    failures,       \* collaborator calls that have failed so far
    homed,          \* the initial move to home was executed
    \* ---- start_here_voice.py
    pc,             \* position of voice_bartender()
    step,           \* index of the pipeline step serve_beverage is at (0: none)
    beverage,       \* local `beverage` of the loop / serve_beverage
    target_pose,    \* local `target_pose` of serve_beverage
    e,              \* the exception serve_beverage caught (NoError if none)
    stockBefore,    \* inventory as it was when the current serve was called
    inFlight,       \* serve_beverage calls entered and not yet returned
    command_queue,  \* queue.Queue shared by the two threads
    produced,       \* every token ever put on command_queue, in order
    served,         \* every token ever handed to serve_beverage, in order
    listener,       \* VoiceListener fields: state, running, thread, recorder
    wpc,            \* position of the worker thread in _listen_loop
    pcm,            \* local `pcm`: the frame read, as the engines will hear it
    deletes,        \* delete() calls made on recorder / porcupine / rhino
    started,        \* listener.start() has returned
    \* ---- programs/mcp_bartender.py (pc, step, beverage, target_pose, e and
    \* served are then those of handle_call_tool and RobotBartender)
    initialized,    \* RobotBartender.initialized
    tool,           \* `name` of the tool call being handled
    remaining,      \* local `remaining` of RobotBartender.serve_beverage
    calls,          \* tool calls received so far
    other,          \* locals of a second handle_call_tool task that overlaps
                    \* the first ("off": the client waits for each answer)
    \* ---- VoiceListener driven by a caller other than voice_bartender
    objects         \* every Thread and PvRecorder its start() calls made,
                    \* the engines, and the caller's position ("off": the
                    \* listener is the one of voice_bartender)

\* the run is one of a client that sends requests without waiting
Overlapping == other.pc # "off"

\* the bounds of the run
FailureBound == IF Overlapping THEN MaxOverlapFailures ELSE MaxFailures
CallBound == IF Overlapping THEN MaxOverlapCalls ELSE MaxCalls

robotVars == <<inventory, tool_out, armAt, trace, outcome, failures>>
orchVars == <<pc, step, beverage, target_pose, e, stockBefore, inFlight, served>>
captureVars == <<listener, wpc, pcm, produced>>
voiceVars == <<orchVars, captureVars, command_queue, deletes, started>>
mcpVars == <<initialized, tool, remaining, calls>>
vars == <<program, homed, robotVars, voiceVars, mcpVars, other, objects>>

\* ------------------------------------------------------- robot collaborators
\* the gripper lines after controller.write(line, value): a write that raised
\* may or may not have reached the output
LinesAfterWrite(lines, line, value, result) ==
    IF result = "ok"
    THEN {[lines EXCEPT ![line] = value]}
    ELSE {lines, [lines EXCEPT ![line] = value]}

\* the robot executes a command: it changes as the collaborator's result says
Execute(cmd, result) ==
    /\ result = "failed" => failures < FailureBound
    /\ failures' = IF result = "failed" THEN failures + 1 ELSE failures
    /\ CASE cmd.cmd = "move" ->
              /\ armAt' \in ArmAfterMove(armAt, cmd.waypoints, result)
              /\ tool_out' = tool_out
         [] cmd.cmd = "write" ->
              /\ tool_out' \in LinesAfterWrite(tool_out, cmd.line, cmd.value, result)
              /\ armAt' = armAt
         [] cmd.cmd = "dwell" ->
              /\ armAt' = armAt
              /\ tool_out' = tool_out

\* one step of a pipeline is sent to the robot: the command is logged and
\* executed
Issue(cmd, result) ==
    /\ trace' = Append(trace, cmd)
    /\ Execute(cmd, result)

\* the results a command can have
Results(cmd) ==
    IF cmd.cmd = "dwell" THEN {"ok"} ELSE CallResults

\* ------------------------------------------------ start_here_voice.py: capture
\* what a recognizer may return in inference.slots['beverage']
SlotValues == {redbull, STING, fanta, water}

\* a frame in state 'wake' is what porcupine.process will say of it
WakeFrames == {[keyword_index |-> k] : k \in {-1, 0}}

\* a frame in state 'command' is what rhino.process and get_inference will
\* say of it: not finalized; finalized and not understood; understood with
\* no slot or with a beverage slot
CommandFrames ==
    {[is_finalized |-> FALSE, is_understood |-> FALSE, slots |-> EmptyDict]}
    \cup {[is_finalized |-> TRUE, is_understood |-> FALSE, slots |-> sl] :
             sl \in {EmptyDict, [beverage |-> fanta]}}
    \cup {[is_finalized |-> TRUE, is_understood |-> TRUE, slots |-> sl] :
             sl \in {EmptyDict} \cup {[beverage |-> v] : v \in SlotValues}}

NoFrame == [none |-> TRUE]

\* VoiceListener.__init__ followed by VoiceListener.start()
ListenerStarted ==
    [state |-> "wake", running |-> TRUE, thread |-> TRUE, recorder |-> "open"]

ListenerAbsent ==
    [state |-> "wake", running |-> FALSE, thread |-> FALSE, recorder |-> "none"]

\* mutant of RunningAfterRaise: the handler leaves the flag as it is
RunningAfterRaiseKept == TRUE

\* self.running = False in the handler (line 153)
RunningAfterRaise == FALSE

\* except Exception in _listen_loop: the flag is cleared and the thread ends
WorkerRaise ==
    /\ listener' = [listener EXCEPT !.running = RunningAfterRaise]
    /\ wpc' = "done"
    /\ pcm' = NoFrame

\* self.recorder.start()
WorkerStart ==
    /\ program = "voice" /\ wpc = "start"
    /\ \/ wpc' = "loop" /\ UNCHANGED <<listener, pcm>>
       \/ WorkerRaise
    /\ UNCHANGED <<program, objects, other, homed, robotVars, orchVars, produced, command_queue,
                   deletes, started, mcpVars>>

\* while self.running:
WorkerLoop ==
    /\ program = "voice" /\ wpc = "loop"
    /\ wpc' = IF listener.running THEN "read" ELSE "done"
    /\ UNCHANGED <<program, objects, other, homed, robotVars, orchVars, listener, pcm, produced,
                   command_queue, deletes, started, mcpVars>>

\* mutant of TokenOf: every understood inference enqueues, slot or no slot
TokenOfAnySlot(inference) ==
    IF inference.is_understood
    THEN <<IF "beverage" \in DOMAIN inference.slots
           THEN Lower(inference.slots.beverage) ELSE EmptyStr>>
    ELSE <<>>

\* the tokens a finalized inference puts on the queue (lines 135-145)
TokenOf(inference) ==
    IF inference.is_understood /\ "beverage" \in DOMAIN inference.slots
    THEN <<Lower(inference.slots.beverage)>>
    ELSE <<>>

\* Queue() is created without maxsize: 0, no upper bound
maxsize == 0

\* mutant of Full: the queue holds one token
FullAtOne(q) == Len(q) >= 1

\* queue.Queue.full(), on which put() blocks
Full(q) == 0 < maxsize /\ maxsize <= Len(q)

\* what processing frame f in state st puts on the queue (lines 124-145)
PutOf(st, f) ==
    IF st = "command" /\ f.is_finalized THEN TokenOf(f) ELSE <<>>

\* pcm = self.recorder.read()
WorkerRead ==
    /\ program = "voice" /\ wpc = "read"
    /\ \/ /\ \E f \in IF listener.state = "wake" THEN WakeFrames
                      ELSE CommandFrames :
                /\ Len(produced) + Len(PutOf(listener.state, f)) <= MaxProduced
                /\ pcm' = f
          /\ wpc' = "process"
          /\ listener' = listener
       \/ WorkerRaise
    /\ UNCHANGED <<program, objects, other, homed, robotVars, orchVars, produced, command_queue,
                   deletes, started, mcpVars>>

\* mutant of StateAfter: only an understood inference ends the command state
StateAfterUnderstoodOnly(st, f) ==
    IF st = "wake"
    THEN IF f.keyword_index >= 0 THEN "command" ELSE st
    ELSE IF f.is_finalized /\ f.is_understood THEN "wake" ELSE st

\* self.state after frame f was processed in state st (lines 124-128 and
\* 130-148; audio_process of prototype_voice.py, lines 86-120, is the same)
StateAfter(st, f) ==
    IF st = "wake"
    THEN IF f.keyword_index >= 0 THEN "command" ELSE st
    ELSE IF f.is_finalized THEN "wake" ELSE st

\* if self.state == 'wake': keyword_index = self.porcupine.process(pcm)
ProcessWake ==
    /\ listener.state = "wake"
    /\ listener' = [listener EXCEPT !.state = StateAfter(@, pcm)]
    /\ wpc' = "loop"
    /\ pcm' = NoFrame
    /\ UNCHANGED <<produced, command_queue>>

\* elif self.state == 'command': is_finalized = self.rhino.process(pcm)
ProcessCommand ==
    /\ listener.state = "command"
    /\ LET put == PutOf("command", pcm)
       IN /\ put # <<>> => ~Full(command_queue)
          /\ command_queue' = command_queue \o put
          /\ produced' = produced \o put
    /\ listener' = [listener EXCEPT !.state = StateAfter(@, pcm)]
    /\ wpc' = "loop"
    /\ pcm' = NoFrame

\* porcupine.process / rhino.process / get_inference raises
ProcessRaise ==
    /\ WorkerRaise
    /\ UNCHANGED <<produced, command_queue>>

\* one frame goes through lines 124-149
WorkerProcess ==
    /\ program = "voice" /\ wpc = "process"
    /\ \/ ProcessWake
       \/ ProcessCommand
       \/ ProcessRaise
    /\ UNCHANGED <<program, objects, other, homed, robotVars, orchVars, deletes, started, mcpVars>>

Worker == WorkerStart \/ WorkerLoop \/ WorkerRead \/ WorkerProcess

\* ------------------------------------------- start_here_voice.py: orchestrator
NoPose == Pose("none")
NoOutcome == [ret |-> FALSE, reason |-> "none"]
\* local `e` while no exception was caught
NoError == <<0, "none">>

\* mutant of close_grippers: the line is asserted before the other is dropped
close_grippers_assert_first == <<Write(1, TRUE), Write(0, FALSE)>>

\* initialize_grippers (lines 155-159)
initialize_grippers == <<Write(0, TRUE), Write(1, FALSE), Write(0, FALSE)>>
\* close_grippers (lines 161-164)
close_grippers == <<Write(0, FALSE), Write(1, TRUE)>>
\* open_grippers (lines 166-169)
open_grippers == <<Write(1, FALSE), Write(0, TRUE)>>

\* the try block of serve_beverage (lines 196-244), one entry per awaited call
VoicePipeline(tp) ==
    initialize_grippers
    \o <<Move(<<start_pose, Offset(tp, -70), tp>>)>>
    \o close_grippers
    \o <<Dwell(3)>>
    \o <<Move(<<Offset(tp, -200), customer>>)>>
    \o <<Dwell(2)>>
    \o open_grippers
    \o <<Dwell(4)>>
    \o <<Move(<<start_pose>>)>>

\* lines 276-296, when the platform is unsupported or VoiceListener(...) or
\* listener.start() raises: the function is left before its try block
BootFail ==
    /\ program = "voice" /\ pc = "boot"
    /\ pc' = "exited"
    /\ UNCHANGED <<program, objects, other, homed, robotVars, step, beverage, target_pose, e,
                   stockBefore, inFlight, served, captureVars, command_queue,
                   deletes, started, mcpVars>>

\* lines 276-296: the listener is created and started, the inventory copied
BootOk ==
    /\ program = "voice" /\ pc = "boot"
    /\ listener' = ListenerStarted
    /\ wpc' = "start"
    /\ started' = TRUE
    /\ inventory' = CopyInventory(INVENTORY)
    /\ pc' = "connect"
    /\ UNCHANGED <<program, objects, other, homed, tool_out, armAt, trace, outcome, failures, step,
                   beverage, target_pose, e, stockBefore, inFlight, served, pcm,
                   produced, command_queue, deletes, mcpVars>>

\* mutant of OnInitFailure: a failed initialization goes on to the commands
OnInitFailureServe == IF program = "voice" THEN "poll" ELSE "dispatch"

\* where the program goes when the session cannot be reached or the initial
\* move fails: the voice program to its finally clause (lines 336-339), the
\* tool call to its error answer (mcp lines 98-100 and 268-271)
OnInitFailure == IF program = "voice" THEN "stop" ELSE "idle"

\* lines 299-305: Nova(), cell.controller, controller[0], tcp_names
Connect ==
    /\ program = "voice" /\ pc = "connect"
    /\ \E r \in CallResults :
          /\ r = "failed" => failures < FailureBound
          /\ failures' = IF r = "failed" THEN failures + 1 ELSE failures
          /\ pc' = IF r = "ok" THEN "home" ELSE OnInitFailure
    /\ UNCHANGED <<program, objects, other, homed, inventory, tool_out, armAt, trace, outcome, step, beverage, target_pose, e,
                   stockBefore, inFlight, served, captureVars, command_queue,
                   deletes, started, mcpVars>>

\* lines 308-311: the initial move to start_pose
Home ==
    /\ program = "voice" /\ pc = "home"
    /\ \E r \in CallResults :
          /\ Issue(Move(<<start_pose>>), r)
          /\ pc' = IF r = "ok" THEN "poll" ELSE OnInitFailure
          /\ homed' = (r = "ok")
    /\ UNCHANGED <<program, objects, other, inventory, outcome, step, beverage, target_pose, e,
                   stockBefore, inFlight, served, captureVars, command_queue,
                   deletes, started, mcpVars>>

\* mutant of PosePopped: pop() without index hands out the newest pose
PosePoppedLast(seq) == seq[Len(seq)]

\* the value of inventory[beverage].pop(0) (voice line 193, mcp line 125)
PosePopped(seq) == Head(seq)

\* mutant of PopHead: the pose is read but the slot is left in the list
PopHeadKeep(inv, b) == inv

\* inventory[beverage].pop(0): the list without its head
PopHead(inv, b) == [inv EXCEPT ![b] = Tail(@)]

\* mutant of Dequeue: the newest token is taken first
DequeueNewest(q) == [item |-> q[Len(q)], rest |-> SubSeq(q, 1, Len(q) - 1)]

\* command_queue.get (line 321) on a non-empty queue.Queue: first in, first out
Dequeue(q) == [item |-> Head(q), rest |-> Tail(q)]

\* mutant of OnReject: a rejected request runs the except block
OnRejectRecover == "recover"

\* where a rejected request goes: `return False` / `return "..."` before the
\* try block (voice lines 184-190, mcp lines 117-122): back to the caller
OnReject == IF program = "voice" THEN "poll" ELSE "idle"

\* mutant of RecoveryWaypoints: the recovery drives to the delivery pose
RecoveryToCustomer == IF program = "voice" THEN <<customer>> ELSE <<CUSTOMER>>

\* the waypoints of the recovery move (voice line 250, mcp line 171)
RecoveryWaypoints ==
    IF program = "voice" THEN <<start_pose>> ELSE <<START_POSE>>

\* mutant of PollPcs: the loop also polls while a serve is in progress
PollPcsWhileServing == {"poll", "serve", "recover"}

\* the pcs at which the loop of voice_bartender calls command_queue.get
\* (line 319): only between two serves
PollPcs == {"poll"}

\* lines 319-328 and 184-194: a token is taken and serve_beverage is entered;
\* an unknown or out-of-stock beverage returns False at once
PollGet ==
    /\ program = "voice" /\ pc \in PollPcs
    /\ command_queue # <<>>
    /\ LET b == Dequeue(command_queue).item
       IN /\ beverage' = b
          /\ command_queue' = Dequeue(command_queue).rest
          /\ served' = Append(served, b)
          /\ stockBefore' = inventory
          /\ trace' = <<>>
          /\ e' = NoError
          /\ failures' = failures
          /\ IF b \notin DOMAIN inventory
             THEN /\ outcome' = [ret |-> FALSE, reason |-> "unknown"]
                  /\ pc' = OnReject
                  /\ UNCHANGED <<inventory, target_pose, step, inFlight>>
             ELSE IF inventory[b] = <<>>
             THEN /\ outcome' = [ret |-> FALSE, reason |-> "out_of_stock"]
                  /\ pc' = OnReject
                  /\ UNCHANGED <<inventory, target_pose, step, inFlight>>
             ELSE /\ target_pose' = PosePopped(inventory[b])
                  /\ inventory' = PopHead(inventory, b)
                  /\ outcome' = NoOutcome
                  /\ pc' = "serve"
                  /\ step' = 1
                  /\ inFlight' = inFlight + 1
    /\ UNCHANGED <<program, objects, other, homed, tool_out, armAt, captureVars, deletes, started, mcpVars>>

\* line 321/330: the queue stayed empty for the timeout, queue.Empty is caught
PollEmpty ==
    /\ program = "voice" /\ pc = "poll"
    /\ command_queue = <<>>
    /\ pc' = "sleep"
    /\ trace' = <<>>
    /\ outcome' = NoOutcome
    /\ stockBefore' = inventory
    /\ UNCHANGED <<program, objects, other, homed, inventory, tool_out, armAt, failures, step,
                   beverage, target_pose, e, inFlight, served, captureVars,
                   command_queue, deletes, started, mcpVars>>

\* line 332: await asyncio.sleep(0.1) in the handler; an interrupt or a
\* cancellation that arrives here leaves the loop for the finally clause
Sleep ==
    /\ program = "voice" /\ pc = "sleep"
    /\ pc' \in {"poll", "stop"}
    /\ UNCHANGED <<program, objects, other, homed, robotVars, step, beverage, target_pose, e,
                   stockBefore, inFlight, served, captureVars, command_queue,
                   deletes, started, mcpVars>>

\* mutant of NextStep: the awaited call that returned is awaited again
NextStepSame(k) == k

\* the awaited call after the k-th one: the try block of serve_beverage is
\* straight-line code, it has no loop and no jump back
NextStep(k) == k + 1

\* mutant of OnStepFailure: the failure is swallowed and the step tried again
OnStepFailureRetry == "serve"

\* where serve_beverage goes when an awaited call of its try block raised:
\* to its except block (voice line 246, mcp line 166)
OnStepFailure == "recover"

\* one awaited call of the try block of serve_beverage (lines 196-244)
ServeStep ==
    /\ program = "voice" /\ pc = "serve"
    /\ LET pipeline == VoicePipeline(target_pose)
           cmd == pipeline[step]
       IN \E r \in Results(cmd) :
             /\ Issue(cmd, r)
             /\ IF r # "ok"
                THEN /\ e' = <<step, r>>
                     /\ pc' = OnStepFailure
                     /\ UNCHANGED <<step, outcome, inFlight>>
                ELSE IF step < Len(pipeline)
                THEN /\ step' = NextStep(step)
                     /\ UNCHANGED <<pc, e, outcome, inFlight>>
                ELSE /\ outcome' = [ret |-> TRUE, reason |-> "served"]
                     /\ pc' = "poll"
                     /\ step' = 0
                     /\ inFlight' = inFlight - 1
                     /\ e' = e
    /\ UNCHANGED <<program, objects, other, homed, inventory, beverage, target_pose, stockBefore,
                   served, captureVars, command_queue, deletes, started, mcpVars>>

\* the exception the recovery move raised (step 0: the except block)
RecoveryError(r) == IF r = "failed" THEN <<0, r>> ELSE NoError

\* mutant of ReportedError: the exception caught last is the one reported
ReportedLastError(err, recovery_error) ==
    IF recovery_error # NoError THEN recovery_error ELSE err

\* the exception named in the report of a failed serve: `e`, never
\* `recovery_error` (voice line 247, mcp lines 167 and 177)
ReportedError(err, recovery_error) == err

\* mutant of AfterRecover: the failure of a serve ends the loop
AfterRecoverStop == "stop"

\* where voice_bartender goes on when serve_beverage returned False after
\* its except block (line 255): the value is dropped at line 328 and the
\* while loop is entered again
AfterRecover == "poll"

\* lines 246-255: one move to start_pose, its failure only logged
Recover ==
    /\ program = "voice" /\ pc = "recover"
    /\ \E r \in CallResults :
          /\ Issue(Move(RecoveryWaypoints), r)
          /\ outcome' = [ret |-> FALSE, reason |-> "error",
                         e |-> ReportedError(e, RecoveryError(r)),
                         recovery |-> r]
    /\ pc' = AfterRecover
    /\ step' = 0
    /\ inFlight' = inFlight - 1
    /\ e' = NoError
    /\ UNCHANGED <<program, objects, other, homed, inventory, beverage, target_pose, stockBefore,
                   served, captureVars, command_queue, deletes, started, mcpVars>>

\* mutant of ListenerAfterStopFlag: stop() also rewinds the recognition state
ListenerAfterStopReset(l) == [l EXCEPT !.running = FALSE, !.state = "wake"]

\* the listener after `self.running = False` in stop() (line 107)
ListenerAfterStopFlag(l) == [l EXCEPT !.running = FALSE]

\* VoiceListener.stop, line 107
StopFlag ==
    /\ program = "voice" /\ pc = "stop"
    /\ listener' = ListenerAfterStopFlag(listener)
    /\ pc' = "join"
    /\ UNCHANGED <<program, objects, other, homed, robotVars, step, beverage, target_pose, e,
                   stockBefore, inFlight, served, wpc, pcm, produced,
                   command_queue, deletes, started, mcpVars>>

\* line 109: join(timeout=2.0) returns when the thread ended or 2 s passed
StopJoin ==
    /\ program = "voice" /\ pc = "join"
    /\ pc' = "delete_recorder"
    /\ UNCHANGED <<program, objects, other, homed, robotVars, step, beverage, target_pose, e,
                   stockBefore, inFlight, served, captureVars, command_queue,
                   deletes, started, mcpVars>>

\* mutant of HasRecorder: the recorder is left alone while the worker lives
HasRecorderAndWorkerEnded(l) == l.recorder # "none" /\ wpc = "done"

\* `if self.recorder:` (line 110)
HasRecorder(l) == l.recorder # "none"

\* lines 110-113: the three delete() calls, one action each
StopDelete ==
    /\ program = "voice"
    /\ \/ /\ pc = "delete_recorder"
          /\ IF HasRecorder(listener)
             THEN /\ listener' = [listener EXCEPT !.recorder = "deleted"]
                  /\ deletes' = [deletes EXCEPT !.recorder = @ + 1]
             ELSE UNCHANGED <<listener, deletes>>
          /\ pc' = "delete_porcupine"
       \/ /\ pc = "delete_porcupine"
          /\ deletes' = [deletes EXCEPT !.porcupine = @ + 1]
          /\ pc' = "delete_rhino"
          /\ listener' = listener
       \/ /\ pc = "delete_rhino"
          /\ deletes' = [deletes EXCEPT !.rhino = @ + 1]
          /\ pc' = "exited"
          /\ listener' = listener
    /\ UNCHANGED <<program, objects, other, homed, robotVars, step, beverage, target_pose, e,
                   stockBefore, inFlight, served, wpc, pcm, produced,
                   command_queue, started, mcpVars>>

Orchestrator ==
    \/ BootFail \/ BootOk \/ Connect \/ Home
    \/ PollGet \/ PollEmpty \/ Sleep \/ ServeStep \/ Recover
    \/ StopFlag \/ StopJoin \/ StopDelete

\* ------------------------------------------------- programs/mcp_bartender.py
\* tool names a client may send; "dance" is not a tool of the server
ToolNames == {"serve_drink", "check_inventory", "go_home", "dance"}

\* arguments.get("beverage", ""): what a client may send (or leave out)
ToolArgs == {coke, Coke, fanta, FANTA, sting, EmptyStr}

\* what the overlapping request may ask for
OtherToolArgs == {Coke, sting}

\* the try block of RobotBartender.serve_beverage (lines 128-162), one entry
\* per awaited call (plan and execute of one trajectory are one Move)
McpPipeline(tp) ==
    <<Move(<<START_POSE, Offset(tp, -70), tp>>),
      Write(1, FALSE), Write(0, TRUE), Dwell(3),
      Move(<<Offset(tp, -70), CUSTOMER>>),
      Dwell(2), Write(0, FALSE), Write(1, TRUE), Dwell(4),
      Move(<<START_POSE>>)>>

Alphabet ==
    <<"a", "b", "c", "d", "e", "f", "g", "h", "i", "j", "k", "l", "m",
      "n", "o", "p", "q", "r", "s", "t", "u", "v", "w", "x", "y", "z">>

\* position of a lower-case letter in the alphabet
Ord(ch) == CHOOSE i \in 1..Len(Alphabet) : Alphabet[i] = ch

\* a < b for str (lower-case letters): first difference decides, then length
RECURSIVE StrLess(_, _)
StrLess(a, b) ==
    IF b = <<>> THEN FALSE
    ELSE IF a = <<>> THEN TRUE
    ELSE IF Head(a) # Head(b) THEN Ord(Head(a)) < Ord(Head(b))
    ELSE StrLess(Tail(a), Tail(b))

\* mutant of SortedKeys: the keys come in the order of the configuration
KeysAsConfigured(keys) ==
    SelectSeq(<<coke, redbull, fanta>>, LAMBDA k : k \in keys)

\* sorted(keys)
RECURSIVE SortedKeys(_)
SortedKeys(keys) ==
    IF keys = {} THEN <<>>
    ELSE LET least == CHOOSE k \in keys : \A o \in keys \ {k} : StrLess(k, o)
         IN <<least>> \o SortedKeys(keys \ {least})

\* str.capitalize() of a lower-case word
Capitalize(str) ==
    IF str = <<>> THEN str
    ELSE [i \in DOMAIN str |->
            IF i = 1
            THEN CHOOSE u \in DOMAIN UpperToLower : UpperToLower[u] = str[1]
            ELSE str[i]]

\* RobotBartender.check_inventory (lines 179-190): the lines of the report
check_inventory(inv) ==
    IF DOMAIN inv = {}
    THEN [ret |-> TRUE, reason |-> "inventory_empty", lines |-> <<>>]
    ELSE [ret |-> TRUE, reason |-> "inventory",
          lines |-> [i \in 1..Cardinality(DOMAIN inv) |->
                       LET b == SortedKeys(DOMAIN inv)[i]
                       IN [status |-> Len(inv[b]) > 0,
                           name |-> Capitalize(b),
                           count |-> Len(inv[b])]]]

\* mutant of RemainingAfterPop: the count is taken before the pop
RemainingBeforePop(inv, b) == Len(inv[b]) + 1

\* remaining = len(self.inventory[beverage]), read after the pop (line 126)
RemainingAfterPop(inv, b) == Len(inv[b])

\* mutant of InventoryAtCall: every tool call resets the inventory
InventoryAtCallReset(inv, init) == CopyInventory(INITIAL_INVENTORY)

\* the inventory once handle_call_tool has run up to its first await: on a
\* server that is not initialized (line 265) initialize() resets it (line 75)
InventoryAtCall(inv, init) ==
    IF init THEN inv ELSE CopyInventory(INITIAL_INVENTORY)

\* handle_call_tool is entered (lines 262-267); on a server that is not
\* initialized, initialize() runs up to its first await: the inventory is
\* reset from INITIAL_INVENTORY (line 75)
CallTool ==
    /\ program = "mcp" /\ pc = "idle"
    /\ calls < CallBound
    /\ calls' = calls + 1
    /\ \E name \in ToolNames :
          /\ tool' = name
          /\ \E arg \in IF name = "serve_drink" THEN ToolArgs ELSE {EmptyStr} :
                beverage' = arg
    /\ trace' = <<>>
    /\ outcome' = NoOutcome
    /\ e' = NoError
    /\ pc' = IF initialized THEN "dispatch" ELSE "initialize"
    /\ inventory' = InventoryAtCall(inventory, initialized)
    /\ UNCHANGED <<program, objects, other, homed, tool_out, armAt, failures, step, target_pose,
                   stockBefore, inFlight, served, captureVars, command_queue, deletes,
                   started, initialized, remaining>>

\* initialize, lines 79-87: Nova(), controller, motion group, tcp names;
\* an exception is re-raised and handle_call_tool answers with it (268-271)
McpConnect ==
    /\ program = "mcp" /\ pc = "initialize"
    /\ \E r \in CallResults :
          /\ r = "failed" => failures < FailureBound
          /\ failures' = IF r = "failed" THEN failures + 1 ELSE failures
          /\ IF r = "ok"
             THEN /\ pc' = "initial_move"
                  /\ outcome' = outcome
             ELSE /\ pc' = OnInitFailure
                  /\ outcome' = [ret |-> FALSE, reason |-> "init_failed",
                                 e |-> <<"connect", r>>]
    /\ UNCHANGED <<program, objects, other, homed, inventory, tool_out, armAt, trace, step, beverage,
                   target_pose, e, stockBefore, inFlight, served, captureVars,
                   command_queue, deletes, started, mcpVars>>

\* initialize, lines 91-95: the move to START_POSE, then initialized = True
McpInitialMove ==
    /\ program = "mcp" /\ pc = "initial_move"
    /\ \E r \in CallResults :
          /\ Issue(Move(<<START_POSE>>), r)
          /\ IF r = "ok"
             THEN /\ initialized' = TRUE
                  /\ homed' = TRUE
                  /\ pc' = "dispatch"
                  /\ outcome' = outcome
             ELSE /\ initialized' = initialized
                  /\ homed' = homed
                  /\ pc' = OnInitFailure
                  /\ outcome' = [ret |-> FALSE, reason |-> "init_failed",
                                 e |-> <<"initial_move", r>>]
    /\ UNCHANGED <<program, objects, other, inventory, step, beverage, target_pose, e,
                   stockBefore, inFlight, served, captureVars, command_queue,
                   deletes, started, tool, remaining, calls>>

\* what serve_beverage decides before its first await (lines 112-126) for
\* argument arg: the kind of answer and the inventory it leaves
ServeDecision(inv, init, arg) ==
    IF ~init
    THEN [kind |-> "not_initialized", inventory |-> inv]
    ELSE LET b == Lower(arg)
         IN IF b \notin DOMAIN inv
            THEN [kind |-> "unknown", inventory |-> inv, beverage |-> b]
            ELSE IF inv[b] = <<>>
            THEN [kind |-> "out_of_stock", inventory |-> inv, beverage |-> b]
            ELSE [kind |-> "serving", inventory |-> PopHead(inv, b),
                  beverage |-> b, target_pose |-> PosePopped(inv[b]),
                  remaining |-> RemainingAfterPop(PopHead(inv, b), b)]

\* serve_beverage up to its first await (lines 112-126)
McpServeEntry ==
    /\ tool = "serve_drink"
    /\ trace' = <<>>
    /\ stockBefore' = inventory
    /\ LET d == ServeDecision(inventory, initialized, beverage)
       IN /\ inventory' = d.inventory
          /\ CASE d.kind = "not_initialized" ->
                    /\ outcome' = [ret |-> FALSE, reason |-> "not_initialized"]
                    /\ pc' = "idle"
                    /\ UNCHANGED <<beverage, served, target_pose, remaining,
                                   step, inFlight>>
               [] d.kind = "unknown" ->
                    /\ beverage' = d.beverage
                    /\ served' = Append(served, d.beverage)
                    /\ outcome' = [ret |-> FALSE, reason |-> "unknown",
                                   beverage |-> d.beverage,
                                   available |-> DOMAIN inventory]
                    /\ pc' = OnReject
                    /\ UNCHANGED <<target_pose, remaining, step, inFlight>>
               [] d.kind = "out_of_stock" ->
                    /\ beverage' = d.beverage
                    /\ served' = Append(served, d.beverage)
                    /\ outcome' = [ret |-> FALSE, reason |-> "out_of_stock",
                                   beverage |-> d.beverage]
                    /\ pc' = OnReject
                    /\ UNCHANGED <<target_pose, remaining, step, inFlight>>
               [] d.kind = "serving" ->
                    /\ beverage' = d.beverage
                    /\ served' = Append(served, d.beverage)
                    /\ target_pose' = d.target_pose
                    /\ remaining' = d.remaining
                    /\ outcome' = outcome
                    /\ pc' = "serve"
                    /\ step' = 1
                    /\ inFlight' = inFlight + 1

\* the other branches of handle_call_tool (lines 277-282)
McpOtherEntry ==
    /\ tool # "serve_drink"
    /\ CASE tool = "check_inventory" ->
              /\ outcome' = check_inventory(inventory)
              /\ pc' = "idle"
         [] tool = "go_home" ->
              IF ~initialized
              THEN /\ outcome' = [ret |-> FALSE, reason |-> "not_initialized"]
                   /\ pc' = "idle"
              ELSE /\ outcome' = outcome
                   /\ pc' = "go_home"
         [] tool = "initialize" ->
              /\ outcome' = [ret |-> TRUE, reason |-> "ready"]
              /\ pc' = "idle"
         [] OTHER ->
              /\ outcome' = [ret |-> FALSE, reason |-> "unknown_tool",
                             tool |-> tool]
              /\ pc' = "idle"
    /\ trace' = IF tool = "go_home" THEN <<>> ELSE trace
    /\ UNCHANGED <<beverage, served, inventory, target_pose, remaining, step,
                   inFlight, stockBefore>>

\* handle_call_tool, lines 273-282: the tool is dispatched
McpDispatch ==
    /\ program = "mcp" /\ pc = "dispatch"
    /\ \/ McpServeEntry
       \/ McpOtherEntry
    /\ UNCHANGED <<program, objects, other, homed, tool_out, armAt, failures, e, captureVars, command_queue, deletes, started, initialized,
                   tool, calls>>

\* one awaited call of the try block of serve_beverage (lines 128-164)
McpServeStep ==
    /\ program = "mcp" /\ pc = "serve"
    /\ LET pipeline == McpPipeline(target_pose)
           cmd == pipeline[step]
       IN \E r \in Results(cmd) :
             /\ Issue(cmd, r)
             /\ IF r # "ok"
                THEN /\ e' = <<step, r>>
                     /\ pc' = OnStepFailure
                     /\ UNCHANGED <<step, outcome, inFlight>>
                ELSE IF step < Len(pipeline)
                THEN /\ step' = NextStep(step)
                     /\ UNCHANGED <<pc, e, outcome, inFlight>>
                ELSE /\ outcome' = [ret |-> TRUE, reason |-> "served",
                                    beverage |-> beverage,
                                    remaining |-> remaining]
                     /\ pc' = "idle"
                     /\ step' = 0
                     /\ inFlight' = inFlight - 1
                     /\ e' = e
    /\ UNCHANGED <<program, objects, other, homed, inventory, beverage, target_pose, stockBefore,
                   served, captureVars, command_queue, deletes, started,
                   mcpVars>>

\* lines 166-177: one move to START_POSE, its failure only logged; the
\* answer carries the exception of the failed step
McpRecover ==
    /\ program = "mcp" /\ pc = "recover"
    /\ \E r \in CallResults :
          /\ Issue(Move(RecoveryWaypoints), r)
          /\ outcome' = [ret |-> FALSE, reason |-> "error",
                         beverage |-> beverage,
                         e |-> ReportedError(e, RecoveryError(r)),
                         recovery |-> r]
    /\ pc' = "idle"
    /\ step' = 0
    /\ inFlight' = inFlight - 1
    /\ e' = NoError
    /\ UNCHANGED <<program, objects, other, homed, inventory, beverage, target_pose, stockBefore,
                   served, captureVars, command_queue, deletes, started,
                   mcpVars>>

\* mutant of GoHomeCommands: the way home leads over the delivery pose
GoHomeViaCustomer == <<Move(<<CUSTOMER, START_POSE>>)>>

\* the awaited calls of the try block of go_home (lines 199-201)
GoHomeCommands == <<Move(<<START_POSE>>)>>

\* RobotBartender.go_home, lines 197-205
McpGoHome ==
    /\ program = "mcp" /\ pc = "go_home"
    /\ \E r \in CallResults :
          /\ Issue(GoHomeCommands[1], r)
          /\ outcome' = IF r = "ok"
                        THEN [ret |-> TRUE, reason |-> "home"]
                        ELSE [ret |-> FALSE, reason |-> "go_home_failed",
                              e |-> <<"go_home", r>>]
    /\ pc' = "idle"
    /\ UNCHANGED <<program, objects, other, homed, inventory, step, beverage, target_pose, e,
                   stockBefore, inFlight, served, captureVars, command_queue,
                   deletes, started, mcpVars>>

\* the methods of RobotBartender a caller may invoke on the object itself
Methods == {"initialize", "serve_drink", "check_inventory", "go_home"}

\* a method of RobotBartender is called directly, without the lazy
\* initialize of handle_call_tool: initialize (lines 66-75) returns at once
\* on an initialized object and resets the inventory otherwise; the other
\* methods start with their own test of the flag
DirectCall ==
    /\ program = "mcp" /\ pc = "idle"
    /\ calls < CallBound
    /\ calls' = calls + 1
    /\ \E name \in Methods :
          /\ tool' = name
          /\ \E arg \in IF name = "serve_drink" THEN ToolArgs ELSE {EmptyStr} :
                beverage' = arg
          /\ IF name = "initialize"
             THEN /\ pc' = IF initialized THEN "idle" ELSE "initialize"
                  /\ outcome' = IF initialized
                                THEN [ret |-> TRUE, reason |-> "already"]
                                ELSE NoOutcome
                  /\ inventory' = InventoryAtCall(inventory, initialized)
             ELSE /\ pc' = "dispatch"
                  /\ outcome' = NoOutcome
                  /\ inventory' = inventory
    /\ trace' = <<>>
    /\ e' = NoError
    /\ UNCHANGED <<program, objects, homed, other, tool_out, armAt, failures, step,
                   target_pose, stockBefore, inFlight, served, captureVars,
                   command_queue, deletes, started, initialized, remaining>>

Mcp ==
    \/ CallTool \/ McpConnect \/ McpInitialMove \/ McpDispatch
    \/ McpServeStep \/ McpRecover \/ McpGoHome

\* ------------------------------ programs/mcp_bartender.py: overlapping calls
\* The server starts a task per request, so a second handle_call_tool can run
\* between two awaits of the first.  Its locals are the record `other`; the
\* bartender object, the inventory and the robot are the ones of the first.
OtherOff ==
    [pc |-> "off", tool |-> "none", beverage |-> EmptyStr,
     target_pose |-> NoPose, step |-> 0, e |-> NoError, remaining |-> 0,
     outcome |-> NoOutcome, calls |-> 0]

OtherIdle == [OtherOff EXCEPT !.pc = "idle"]

\* the second task returns `out` to its client; its locals are gone
OtherReturn(out) == [OtherIdle EXCEPT !.outcome = out, !.calls = other.calls]

\* handle_call_tool is entered by the second task (lines 262-267, 68-75)
OtherCallTool ==
    /\ program = "mcp" /\ other.pc = "idle"
    /\ calls < CallBound /\ other.calls < MaxOtherCalls
    /\ calls' = calls + 1
    /\ \E name \in ToolNames :
          \E arg \in IF name = "serve_drink" THEN OtherToolArgs
                      ELSE {EmptyStr} :
             other' = [OtherIdle EXCEPT
                         !.calls = other.calls + 1,
                         !.tool = name, !.beverage = arg,
                         !.pc = IF initialized THEN "dispatch"
                                ELSE "initialize"]
    /\ inventory' = InventoryAtCall(inventory, initialized)
    /\ UNCHANGED <<program, objects, homed, tool_out, armAt, trace, outcome, failures,
                   voiceVars, initialized, tool, remaining>>

\* initialize in the second task, lines 79-87
OtherConnect ==
    /\ program = "mcp" /\ other.pc = "initialize"
    /\ \E r \in CallResults :
          /\ r = "failed" => failures < FailureBound
          /\ failures' = IF r = "failed" THEN failures + 1 ELSE failures
          /\ other' = IF r = "ok"
                      THEN [other EXCEPT !.pc = "initial_move"]
                      ELSE OtherReturn([ret |-> FALSE,
                                        reason |-> "init_failed",
                                        e |-> <<"connect", r>>])
    /\ UNCHANGED <<program, objects, homed, inventory, tool_out, armAt, trace, outcome,
                   voiceVars, mcpVars>>

\* initialize in the second task, lines 91-95
OtherInitialMove ==
    /\ program = "mcp" /\ other.pc = "initial_move"
    /\ \E r \in CallResults :
          /\ Execute(Move(<<START_POSE>>), r)
          /\ IF r = "ok"
             THEN /\ initialized' = TRUE
                  /\ homed' = TRUE
                  /\ other' = [other EXCEPT !.pc = "dispatch"]
             ELSE /\ initialized' = initialized
                  /\ homed' = homed
                  /\ other' = OtherReturn([ret |-> FALSE,
                                           reason |-> "init_failed",
                                           e |-> <<"initial_move", r>>])
    /\ UNCHANGED <<program, objects, inventory, trace, outcome, voiceVars, tool,
                   remaining, calls>>

\* serve_beverage up to its first await in the second task (lines 112-126)
OtherServeEntry ==
    /\ other.tool = "serve_drink"
    /\ IF ~initialized
       THEN /\ other' = OtherReturn([ret |-> FALSE,
                                     reason |-> "not_initialized"])
            /\ UNCHANGED <<inventory, served, inFlight>>
       ELSE LET b == Lower(other.beverage)
            IN /\ served' = Append(served, b)
               /\ IF b \notin DOMAIN inventory
                  THEN /\ other' = OtherReturn([ret |-> FALSE,
                                                reason |-> "unknown",
                                                beverage |-> b])
                       /\ UNCHANGED <<inventory, inFlight>>
                  ELSE IF inventory[b] = <<>>
                  THEN /\ other' = OtherReturn([ret |-> FALSE,
                                                reason |-> "out_of_stock",
                                                beverage |-> b])
                       /\ UNCHANGED <<inventory, inFlight>>
                  ELSE /\ inventory' = PopHead(inventory, b)
                       /\ other' = [other EXCEPT
                             !.beverage = b,
                             !.target_pose = PosePopped(inventory[b]),
                             !.remaining = RemainingAfterPop(inventory', b),
                             !.pc = "serve", !.step = 1]
                       /\ inFlight' = inFlight + 1

\* the other branches of handle_call_tool in the second task (lines 277-282)
OtherOtherEntry ==
    /\ other.tool # "serve_drink"
    /\ other' =
          CASE other.tool = "check_inventory" ->
                  OtherReturn(check_inventory(inventory))
            [] other.tool = "go_home" ->
                  IF ~initialized
                  THEN OtherReturn([ret |-> FALSE,
                                    reason |-> "not_initialized"])
                  ELSE [other EXCEPT !.pc = "go_home"]
            [] OTHER ->
                  OtherReturn([ret |-> FALSE, reason |-> "unknown_tool",
                               tool |-> other.tool])
    /\ UNCHANGED <<inventory, served, inFlight>>

\* handle_call_tool in the second task, lines 273-282
OtherDispatch ==
    /\ program = "mcp" /\ other.pc = "dispatch"
    /\ \/ OtherServeEntry
       \/ OtherOtherEntry
    /\ UNCHANGED <<program, objects, homed, tool_out, armAt, trace, outcome, failures,
                   pc, step, beverage, target_pose, e, stockBefore,
                   captureVars, command_queue, deletes, started, mcpVars>>

\* one awaited call of the try block in the second task (lines 128-164)
OtherServeStep ==
    /\ program = "mcp" /\ other.pc = "serve"
    /\ LET pipeline == McpPipeline(other.target_pose)
           cmd == pipeline[other.step]
       IN \E r \in Results(cmd) :
             /\ Execute(cmd, r)
             /\ IF r # "ok"
                THEN /\ other' = [other EXCEPT !.e = <<other.step, r>>,
                                               !.pc = OnStepFailure]
                     /\ inFlight' = inFlight
                ELSE IF other.step < Len(pipeline)
                THEN /\ other' = [other EXCEPT !.step = @ + 1]
                     /\ inFlight' = inFlight
                ELSE /\ other' = OtherReturn(
                                    [ret |-> TRUE, reason |-> "served",
                                     beverage |-> other.beverage,
                                     remaining |-> other.remaining])
                     /\ inFlight' = inFlight - 1
    /\ UNCHANGED <<program, objects, homed, inventory, trace, outcome, pc, step,
                   beverage, target_pose, e, stockBefore, served, captureVars,
                   command_queue, deletes, started, mcpVars>>

\* the except block in the second task (lines 166-177)
OtherRecover ==
    /\ program = "mcp" /\ other.pc = "recover"
    /\ \E r \in CallResults :
          /\ Execute(Move(RecoveryWaypoints), r)
          /\ other' = OtherReturn(
                         [ret |-> FALSE, reason |-> "error",
                          beverage |-> other.beverage,
                          e |-> ReportedError(other.e, RecoveryError(r)),
                          recovery |-> r])
    /\ inFlight' = inFlight - 1
    /\ UNCHANGED <<program, objects, homed, inventory, trace, outcome, pc, step,
                   beverage, target_pose, e, stockBefore, served, captureVars,
                   command_queue, deletes, started, mcpVars>>

\* RobotBartender.go_home in the second task, lines 197-205
OtherGoHome ==
    /\ program = "mcp" /\ other.pc = "go_home"
    /\ \E r \in CallResults :
          /\ Execute(GoHomeCommands[1], r)
          /\ other' = OtherReturn(
                         IF r = "ok"
                         THEN [ret |-> TRUE, reason |-> "home"]
                         ELSE [ret |-> FALSE, reason |-> "go_home_failed",
                               e |-> <<"go_home", r>>])
    /\ UNCHANGED <<program, objects, homed, inventory, trace, outcome, voiceVars,
                   mcpVars>>

McpOther ==
    \/ OtherCallTool \/ OtherConnect \/ OtherInitialMove \/ OtherDispatch
    \/ OtherServeStep \/ OtherRecover \/ OtherGoHome

\* ------------------------------------------------------------- specification
InitRobot ==
    /\ inventory = EmptyDict
    /\ tool_out = [i \in 0..1 |-> FALSE]
    /\ armAt = Midway
    /\ trace = <<>>
    /\ outcome = NoOutcome
    /\ failures = 0

InitVoice ==
    /\ step = 0
    /\ beverage = EmptyStr /\ target_pose = NoPose /\ e = NoError
    /\ stockBefore = EmptyDict /\ inFlight = 0
    /\ command_queue = <<>> /\ produced = <<>> /\ served = <<>>
    /\ listener = ListenerAbsent /\ wpc = "idle" /\ pcm = NoFrame
    /\ deletes = [recorder |-> 0, porcupine |-> 0, rhino |-> 0]
    /\ started = FALSE

\* no caller but voice_bartender
NoObjects ==
    [caller |-> "off", calls |-> 0, threads |-> <<>>, recorders |-> <<>>,
     engines |-> "open"]

InitMcp ==
    /\ initialized = FALSE /\ tool = "none" /\ remaining = 0 /\ calls = 0

Init ==
    /\ program \in {"voice", "mcp"}
    /\ homed = FALSE
    /\ InitRobot
    /\ InitVoice
    /\ InitMcp
    /\ pc = IF program = "voice" THEN "boot" ELSE "idle"
    /\ other = OtherOff
    /\ objects = NoObjects

Next == Worker \/ Orchestrator \/ Mcp

Spec == Init /\ [][Next]_vars

\* the MCP server with a client that does not wait for an answer before it
\* sends the next request
InitOverlap ==
    /\ program = "mcp"
    /\ homed = FALSE
    /\ InitRobot
    /\ InitVoice
    /\ InitMcp
    /\ pc = "idle"
    /\ other = OtherIdle
    /\ objects = NoObjects

NextOverlap == Mcp \/ McpOther

\* an interrupt or a cancellation reaches the loop of voice_bartender
Interrupted == pc = "sleep" /\ pc' = "stop"

\* the voice program while nobody interrupts it; the event loop runs the one
\* task of voice_bartender whenever it can take a step, and every
\* collaborator call returns
InitLive ==
    /\ program = "voice"
    /\ homed = FALSE
    /\ InitRobot
    /\ InitVoice
    /\ InitMcp
    /\ pc = "boot"
    /\ other = OtherOff
    /\ objects = NoObjects

NextLive == (Worker \/ Orchestrator) /\ ~Interrupted

SpecLive ==
    InitLive /\ [][NextLive]_vars /\ WF_vars(Orchestrator /\ ~Interrupted)

\* RobotBartender used as an object: its methods are called one after
\* another in any order, initialize among them
NextDirect ==
    \/ DirectCall \/ McpConnect \/ McpInitialMove \/ McpDispatch
    \/ McpServeStep \/ McpRecover \/ McpGoHome

InitDirect ==
    /\ program = "mcp"
    /\ homed = FALSE
    /\ InitRobot
    /\ InitVoice
    /\ InitMcp
    /\ pc = "idle"
    /\ other = OtherOff
    /\ objects = NoObjects

SpecDirect == InitDirect /\ [][NextDirect]_vars

SpecOverlap == InitOverlap /\ [][NextOverlap]_vars

\* ------------------------------ start_here_voice.py: VoiceListener as a class
\* A caller holds one VoiceListener and calls start() and stop() on it one
\* after the other, in any order.  objects.threads[i] is the position of the
\* i-th thread made by start() in _listen_loop, objects.recorders[i] the state
\* of the i-th PvRecorder; self.thread and self.recorder are the last ones.

\* VoiceListener.start, lines 87-103: it returns at once while self.running;
\* else PvRecorder(...) raises, or the recorder and the thread are made
ListenerStart ==
    /\ program = "listener" /\ objects.caller = "idle"
    /\ objects.calls < MaxListenerCalls
    /\ IF listener.running
       THEN /\ objects' = [objects EXCEPT !.calls = @ + 1]
            /\ listener' = listener
       ELSE \/ /\ objects' = [objects EXCEPT !.calls = @ + 1]
               /\ listener' = listener
            \/ /\ Len(objects.threads) < MaxStarts
               /\ objects' = [objects EXCEPT
                                 !.calls = @ + 1,
                                 !.recorders = Append(@, "open"),
                                 !.threads = Append(@, "start")]
               /\ listener' = [listener EXCEPT !.recorder = "open",
                                               !.running = TRUE,
                                               !.thread = TRUE]
    /\ UNCHANGED <<program, homed, robotVars, orchVars, wpc, pcm, produced,
                   command_queue, deletes, started, mcpVars, other>>

\* VoiceListener.stop, line 107
ListenerStop ==
    /\ program = "listener" /\ objects.caller = "idle"
    /\ objects.calls < MaxListenerCalls
    /\ listener' = ListenerAfterStopFlag(listener)
    /\ objects' = [objects EXCEPT
                      !.calls = @ + 1,
                      !.caller = IF listener.thread THEN "join" ELSE "delete"]
    /\ UNCHANGED <<program, homed, robotVars, orchVars, wpc, pcm, produced,
                   command_queue, deletes, started, mcpVars, other>>

\* lines 108-109: join(timeout=2.0) returns when self.thread has ended or
\* when the two seconds are over, and stop() goes on either way
ListenerJoin ==
    /\ program = "listener" /\ objects.caller = "join"
    /\ objects' = [objects EXCEPT !.caller = "delete"]
    /\ UNCHANGED <<program, homed, robotVars, voiceVars, mcpVars, other>>

\* lines 110-113: self.recorder, if there is one, and the engines are deleted
ListenerRelease ==
    /\ program = "listener" /\ objects.caller = "delete"
    /\ IF HasRecorder(listener)
       THEN /\ listener' = [listener EXCEPT !.recorder = "deleted"]
            /\ objects' = [objects EXCEPT
                              !.recorders[Len(objects.recorders)] = "deleted",
                              !.engines = "deleted",
                              !.caller = "idle"]
       ELSE /\ listener' = listener
            /\ objects' = [objects EXCEPT !.engines = "deleted",
                                          !.caller = "idle"]
    /\ UNCHANGED <<program, homed, robotVars, orchVars, wpc, pcm, produced,
                   command_queue, deletes, started, mcpVars, other>>

\* _listen_loop in the i-th thread (lines 116-153), one step: recorder.start,
\* the test of self.running, the read, the processing of the frame; a call
\* that raises ends the thread in the handler of line 151
ListenLoop(i) ==
    /\ program = "listener"
    /\ LET at == objects.threads[i]
           ends == /\ objects' = [objects EXCEPT !.threads[i] = "done"]
                   /\ listener' =
                         [listener EXCEPT !.running = RunningAfterRaise]
       IN CASE at = "start" ->
                  \/ /\ objects' = [objects EXCEPT !.threads[i] = "loop"]
                     /\ listener' = listener
                  \/ ends
            [] at = "loop" ->
                  /\ objects' =
                        [objects EXCEPT
                           !.threads[i] = IF listener.running THEN "read"
                                          ELSE "done"]
                  /\ listener' = listener
            [] at = "read" ->
                  \/ /\ objects' = [objects EXCEPT !.threads[i] = "process"]
                     /\ listener' = listener
                  \/ ends
            [] at = "process" ->
                  \/ /\ objects' = [objects EXCEPT !.threads[i] = "loop"]
                     /\ \E f \in IF listener.state = "wake" THEN WakeFrames
                                  ELSE CommandFrames :
                           listener' =
                             [listener EXCEPT !.state = StateAfter(@, f)]
                  \/ ends
            [] OTHER -> FALSE
    /\ UNCHANGED <<program, homed, robotVars, orchVars, wpc, pcm, produced,
                   command_queue, deletes, started, mcpVars, other>>

ListenerThreads == \E i \in 1..Len(objects.threads) : ListenLoop(i)

InitListener ==
    /\ program = "listener"
    /\ homed = FALSE
    /\ InitRobot
    /\ InitVoice
    /\ InitMcp
    /\ pc = "idle"
    /\ other = OtherOff
    /\ objects = [NoObjects EXCEPT !.caller = "idle"]

NextListener ==
    \/ ListenerStart \/ ListenerStop \/ ListenerJoin \/ ListenerRelease
    \/ ListenerThreads

SpecListener == InitListener /\ [][NextListener]_vars

\* ------------------------------------------------------------------ claims
\* how often token b was handed to serve_beverage
RECURSIVE Count(_, _)
Count(b, seq) ==
    IF seq = <<>> THEN 0
    ELSE (IF Head(seq) = b THEN 1 ELSE 0) + Count(b, Tail(seq))

IsPrefix(a, b) == Len(a) <= Len(b) /\ SubSeq(b, 1, Len(a)) = a

\* a serve call has returned to its caller and its result is at hand
Returned ==
    \/ program = "voice" /\ pc = "poll"
    \/ program = "mcp" /\ pc = "idle" /\ tool = "serve_drink"

\* the pipeline of the program that runs, for the pose of the current serve
PipelineOf ==
    IF program = "voice" THEN VoicePipeline(target_pose)
    ELSE McpPipeline(target_pose)

HomePose == IF program = "voice" THEN start_pose ELSE START_POSE

\* C1: with no collaborator failure so far, the k-th serve_drink call for a
\* beverage of initial stock n succeeds and reports n-k remaining while
\* k <= n; every later call fails with out-of-stock and the stock is 0.
C1_StockCountdown ==
    (program = "mcp" /\ failures = 0 /\ pc = "idle" /\ tool = "serve_drink"
        /\ beverage \in DOMAIN INITIAL_INVENTORY)
    => LET n == Len(INITIAL_INVENTORY[beverage])
           k == Count(beverage, served)
       IN /\ k >= 1
          /\ k <= n => /\ outcome = [ret |-> TRUE, reason |-> "served",
                                     beverage |-> beverage,
                                     remaining |-> n - k]
                       /\ Len(inventory[beverage]) = n - k
          /\ k > n => /\ outcome = [ret |-> FALSE, reason |-> "out_of_stock",
                                    beverage |-> beverage]
                      /\ Len(inventory[beverage]) = 0

\* the third and the fourth coke call of a failure-free run are out of stock
C1_Witness ==
    /\ program = "mcp" /\ failures = 0 /\ pc = "idle" /\ tool = "serve_drink"
    /\ served = <<coke, coke, coke, coke>>
    /\ outcome.reason = "out_of_stock"
    /\ inventory[coke] = <<>>

\* C2: the tokens handed to serve_beverage are, in order, a prefix of the
\* tokens put on the queue, and the rest of them is exactly the queue:
\* nothing is lost, duplicated, merged or reordered.
C2_FifoNoLoss ==
    program = "voice"
    => /\ IsPrefix(served, produced)
       /\ produced = served \o command_queue

\* two identical tokens in a row were both enqueued and both served
C2_Witness ==
    /\ program = "voice"
    /\ produced = <<redbull, redbull>>
    /\ served = <<redbull, redbull>>
    /\ outcome.reason = "served"

\* C3: while a serve is recovering from a failed step, and once it has
\* returned with that failure, the beverage's stock is its stock before the
\* serve minus one and every other beverage's sequence is what it was.
C3_FailedServeKeepsPop ==
    ((pc = "recover") \/ (Returned /\ outcome.reason = "error"))
    => /\ DOMAIN inventory = DOMAIN stockBefore
       /\ Len(inventory[beverage]) = Len(stockBefore[beverage]) - 1
       /\ \A b \in DOMAIN inventory \ {beverage} :
             inventory[b] = stockBefore[b]

\* a serve failed at its last step and its recovery move failed too
C3_Witness ==
    /\ Returned /\ outcome.reason = "error"
    /\ outcome.e[1] = Len(PipelineOf) /\ outcome.recovery = "failed"
    /\ Len(inventory[beverage]) = Len(stockBefore[beverage]) - 1

\* C4: once a step has failed, the commands issued by the serve are the
\* pipeline up to and including the failed step and nothing more while it
\* recovers; when it has returned they are those followed by exactly one
\* move to home, and it has returned with a result whether that move
\* succeeded or failed.
C4_AbortThenOneRecovery ==
    /\ (pc \in {"serve", "recover"} /\ e # NoError)
       => /\ pc = "recover"
          /\ trace = SubSeq(PipelineOf, 1, e[1])
    /\ (Returned /\ outcome.reason = "error")
       => /\ trace = SubSeq(PipelineOf, 1, outcome.e[1])
                       \o <<Move(<<HomePose>>)>>
          /\ outcome.recovery \in {"ok", "failed"}
          /\ inFlight = 0

\* the grip step failed, the recovery move failed, the serve returned
C4_Witness ==
    /\ Returned /\ outcome.reason = "error"
    /\ PipelineOf[outcome.e[1]].cmd = "write"
    /\ outcome.recovery = "failed"

C6_NeverBothAsserted == ~(tool_out[0] /\ tool_out[1])

\* C7: a request for an unknown beverage or for one whose sequence is empty
\* has returned at once, the inventory is what it was when the request came
\* in, and no command was issued for it.
C7_RejectNoSideEffect ==
    (pc \notin {"initialize", "initial_move", "dispatch"}
        /\ outcome.reason \in {"unknown", "out_of_stock"})
    => /\ Returned
       /\ inventory = stockBefore
       /\ trace = <<>>
       /\ inFlight = 0
       /\ \/ beverage \notin DOMAIN inventory
          \/ inventory[beverage] = <<>>

\* the second fanta request finds the fanta sequence empty
C7_Witness ==
    /\ program = "voice" /\ outcome.reason = "out_of_stock"
    /\ served = <<fanta, fanta>>
    /\ inventory = stockBefore /\ inventory[fanta] = <<>>

\* C8: at most one serve is in flight, and a token is taken off the queue
\* and handed to serve_beverage only when none is.
C8_OneServeInFlight ==
    [][/\ inFlight' <= 1
       /\ (program = "voice" /\ served' # served) => inFlight = 0]_vars

\* a token waits in the queue while the serve before it is recovering
C8_Witness ==
    /\ program = "voice" /\ pc = "recover" /\ inFlight = 1
    /\ command_queue # <<>>

\* C9: once the program has exited after the listener was started, the
\* recorder and both engines were deleted exactly once; none is ever deleted
\* twice.
C9_ReleasedExactlyOnce ==
    /\ \A r \in DOMAIN deletes : deletes[r] <= 1
    /\ (started /\ pc = "exited") => \A r \in DOMAIN deletes : deletes[r] = 1

\* the join timed out: the program has exited while the worker is in read()
C9_Witness ==
    /\ started /\ pc = "exited" /\ wpc = "read"
    /\ deletes = [recorder |-> 1, porcupine |-> 1, rhino |-> 1]

\* the token the claim expects for a frame: the slot value with every
\* upper-case letter replaced by its lower-case letter
C10_Expected(st, f) ==
    IF st = "command" /\ f.is_finalized /\ f.is_understood
          /\ "beverage" \in DOMAIN f.slots
    THEN <<[i \in DOMAIN f.slots.beverage |-> LowerChar(f.slots.beverage[i])]>>
    ELSE <<>>

\* C10: a step of the worker that finishes processing a frame enqueues
\* exactly the one lower-cased beverage slot of a finalized, understood
\* inference in state command, and nothing for any other frame; no other
\* step of the program enqueues anything.
C10_EnqueueIffBeverage ==
    [][IF wpc = "process" /\ wpc' = "loop"
       THEN /\ produced' = produced \o C10_Expected(listener.state, pcm)
            /\ command_queue' = command_queue
                                   \o C10_Expected(listener.state, pcm)
       ELSE produced' = produced]_vars

\* "STING" was recognized and "sting" is on the queue
C10_Witness ==
    /\ program = "voice" /\ wpc = "loop"
    /\ produced # <<>> /\ produced[Len(produced)] = sting
    /\ command_queue # <<>> /\ command_queue[Len(command_queue)] = sting
\* the state the claim expects after a frame: the detector's match leaves
\* wake, the recognizer's finalized leaves command, nothing else moves
C11_Expected(st, f) ==
    CASE st = "wake" /\ f.keyword_index >= 0 -> "command"
      [] st = "command" /\ f.is_finalized -> "wake"
      [] OTHER -> st

\* C11: a step that finishes processing a frame moves wake to command exactly
\* on a detector match and command to wake exactly on a finalized inference
\* (understood or not, slot or not); a frame without transition, and the
\* transition to command, enqueue nothing; no other step of the program
\* changes the recognition state.
C11_RecognitionTransitions ==
    [][IF wpc = "process" /\ wpc' = "loop"
       THEN /\ listener'.state = C11_Expected(listener.state, pcm)
            /\ (listener'.state = listener.state \/ listener'.state = "command")
               => produced' = produced
       ELSE listener'.state = listener.state]_vars

\* a finalized inference that was not understood is about to be processed in
\* state command, after an earlier cycle went wake, command, wake and
\* enqueued its token
C11_Witness ==
    /\ program = "voice" /\ wpc = "process" /\ listener.state = "command"
    /\ pcm.is_finalized /\ ~pcm.is_understood
    /\ produced = <<fanta>>

\* an Actuate step: the two writes deassert one line, then assert the other
C12_IsActuate(w1, w2) ==
    /\ w1.cmd = "write" /\ w2.cmd = "write"
    /\ w1.line # w2.line
    /\ w1.value = FALSE /\ w2.value = TRUE

\* pose p is the pick pose tp displaced along z
C12_IsAbove(p, tp) == p.name = tp.name /\ p.dz # tp.dz

\* the fixed pipeline of the claim, for pick pose tp: ten awaited calls
C12_IsFixedPipeline(t, tp) ==
    /\ Len(t) = 10
    /\ t[1].cmd = "move" /\ Len(t[1].waypoints) = 3
    /\ t[1].waypoints[1] = HomePose
    /\ C12_IsAbove(t[1].waypoints[2], tp)
    /\ t[1].waypoints[3] = tp
    /\ C12_IsActuate(t[2], t[3])
    /\ t[4] = Dwell(3)
    /\ t[5].cmd = "move" /\ Len(t[5].waypoints) = 2
    /\ C12_IsAbove(t[5].waypoints[1], tp)
    /\ t[5].waypoints[2] = (IF program = "voice" THEN customer ELSE CUSTOMER)
    /\ t[6] = Dwell(2)
    /\ C12_IsActuate(t[7], t[8])
    /\ t[7].line = t[3].line /\ t[8].line = t[2].line
    /\ t[9] = Dwell(4)
    /\ t[10] = Move(<<HomePose>>)

\* C12: when a serve in which no step failed has returned, the commands it
\* issued are exactly the fixed pipeline: Move [home, approach, pick]; close;
\* Dwell 3; Move [retreat, customer]; Dwell 2; open; Dwell 4; Move [home],
\* with nothing before, between or after.
C12_ExactPipeline ==
    (Returned /\ outcome.reason = "served")
    => C12_IsFixedPipeline(trace, target_pose)

\* C13: when a serve that failed on a step has returned, it is reported as
\* failed and the error it reports is the error of the step the pipeline
\* stopped at (the last command before the recovery move), whether the
\* recovery move succeeded or failed.
C13_OriginalErrorReported ==
    (Returned /\ outcome.reason = "error")
    => /\ outcome.ret = FALSE
       /\ trace # <<>>
       /\ outcome.e = <<Len(trace) - 1, "failed">>
       /\ PipelineOf[outcome.e[1]].cmd \in {"move", "write"}

\* the first move failed and then the recovery move failed as well
C13_Witness ==
    /\ Returned /\ outcome.reason = "error" /\ outcome.recovery = "failed"
    /\ outcome.ret = FALSE
    /\ PipelineOf[outcome.e[1]].cmd = "move" /\ outcome.e[1] <= 4
    /\ Len(trace) = outcome.e[1] + 1

\* a step pops a slot: some beverage has fewer poses after it than before
C14_Pops ==
    \E b \in DOMAIN inventory \cap DOMAIN inventory' :
       Len(inventory'[b]) < Len(inventory[b])

\* a step issues a command to the robot other than the initial move
C14_IssuesCommand ==
    /\ trace' # trace /\ trace' # <<>>
    /\ pc \notin {"home", "initial_move"}

\* the voice program is past a failed initialization
C14_StartupAborted ==
    /\ program = "voice" /\ started /\ ~homed
    /\ pc \in {"stop", "join", "delete_recorder", "delete_porcupine",
               "delete_rhino", "exited"}

\* C14: a step that takes a token off the queue, pops an inventory slot or
\* issues a serve motion is taken only after the session was reached and the
\* initial move to home was executed; after a failed initialization the
\* voice program never takes the loop: nothing was served, nothing popped,
\* and every token the listener queued is still in the queue.
C14_NothingBeforeInitialized ==
    [][/\ (served' # served \/ C14_Pops \/ C14_IssuesCommand) => homed
       /\ C14_StartupAborted'
          => /\ served' = <<>>
             /\ inventory' = INVENTORY
             /\ command_queue' = produced'
             /\ pc' # "poll"]_vars

\* the initial move failed, the program has exited, and a token the
\* listener had queued meanwhile was never served
C14_Witness ==
    /\ program = "voice" /\ pc = "exited" /\ started /\ ~homed
    /\ failures > 0
    /\ command_queue # <<>> /\ served = <<>>

\* the beverages whose sequence a step changes
C15_Changed == {b \in DOMAIN inventory : inventory'[b] # inventory[b]}

\* C15: once the inventory has been created, every step keeps its keys and
\* leaves each beverage's sequence as it was or without its head; at most
\* one sequence changes in a step, and only in a step that hands a token to
\* serve_beverage.  No step (initialize, repeated or overlapping; the report;
\* go_home; recovery) makes a sequence longer.
C15_StockNonIncreasing ==
    [][DOMAIN inventory # {}
       => /\ DOMAIN inventory' = DOMAIN inventory
          /\ \A b \in DOMAIN inventory :
                /\ Len(inventory'[b]) <= Len(inventory[b])
                /\ \/ inventory'[b] = inventory[b]
                   \/ /\ inventory[b] # <<>>
                      /\ inventory'[b] = Tail(inventory[b])
          /\ Cardinality(C15_Changed) <= 1
          /\ C15_Changed # {}
             => /\ served' # served
                /\ inFlight' = inFlight + 1]_vars

\* after a failed collaborator call, the second task is still inside
\* initialize (it reset the inventory when it entered) while the first task
\* has popped a coke slot and is serving
C15_Witness ==
    /\ program = "mcp" /\ failures = 1 /\ calls = 3
    /\ other.pc = "initial_move"
    /\ pc = "serve" /\ served = <<coke>>
    /\ inventory[coke] = <<COKE_1>>

\* the worker finishes the frame it holds, and what the frame says is put on
\* the queue
C16_FrameProcessed ==
    /\ WorkerProcess
    /\ wpc' = "loop"
    /\ command_queue' = command_queue \o PutOf(listener.state, pcm)

\* C16: whatever the control loop is doing (serving, recovering, idle),
\* the capture worker can take its next step: it can enter the loop while
\* running, read a frame, and finish processing the frame it holds, the put
\* included, however many tokens are waiting.
C16_CaptureNeverPaused ==
    program = "voice"
    => /\ (wpc = "loop" /\ listener.running)
          => ENABLED (WorkerLoop /\ wpc' = "read")
       /\ wpc = "read" => ENABLED (WorkerRead /\ wpc' = "process")
       /\ wpc = "process" => ENABLED C16_FrameProcessed

\* while a failed serve is recovering, the worker holds a frame that will
\* put a token on the queue
C16_Witness ==
    /\ program = "voice" /\ pc = "recover" /\ e # NoError
    /\ wpc = "process" /\ listener.state = "command"
    /\ PutOf("command", pcm) # <<>>

\* the worker thread has ended although nobody asked the listener to stop
C17_WorkerDied ==
    /\ program = "voice" /\ wpc = "done"
    /\ pc \in {"connect", "home", "poll", "sleep", "serve", "recover"}

\* C17: when the worker thread has ended on an exception, the running flag
\* is false and the loop of the orchestrator can still take the head of a
\* non-empty queue; from then on no frame is processed, the recognition
\* state stays, nothing is enqueued, and every token the orchestrator takes
\* is the oldest one waiting.
C17_WorkerErrorIsLocal ==
    /\ [](C17_WorkerDied
             => /\ ~listener.running
                /\ (pc = "poll" /\ command_queue # <<>>) => ENABLED PollGet)
    /\ [][(program = "voice" /\ wpc = "done")
             => /\ wpc' = "done" /\ pcm' = pcm
                /\ listener'.state = listener.state
                /\ produced' = produced
                /\ served' # served
                   => /\ served' = Append(served, Head(command_queue))
                      /\ command_queue' = Tail(command_queue)]_vars

\* the worker died on an exception with two tokens in the queue, and the
\* orchestrator is at its loop
C17_Witness ==
    /\ C17_WorkerDied /\ pc = "poll"
    /\ Len(command_queue) = 2 /\ served = <<>>

\* a step of the worker thread
C18_WorkerStep == program = "voice" /\ wpc # "idle" /\ wpc' # wpc

\* a step of the control thread while the worker thread exists
C18_ControlStep == program = "voice" /\ wpc # "idle" /\ wpc' = wpc

\* a worker step leaves everything of the control domain as it was
C18_WorkerLeavesControl ==
    C18_WorkerStep
    => UNCHANGED <<inventory, tool_out, armAt, trace, outcome, failures,
                   homed, pc, step, beverage, target_pose, e, stockBefore,
                   inFlight, served, deletes, started>>

C19_Lowered(b) == [i \in DOMAIN b |-> LowerChar(b[i])]

\* spellings a client may send
C19_Spellings == ToolArgs \cup {STING, water}

\* C19: in every state of the server, serve_drink for a spelling and for its
\* lower-case form decide the same kind of answer (not initialized, unknown,
\* out of stock, serving), pick the same pose and leave the same inventory.
C19_CaseIndependent ==
    program = "mcp"
    => \A b \in C19_Spellings :
          LET typed == ServeDecision(inventory, initialized, b)
              lowered == ServeDecision(inventory, initialized, C19_Lowered(b))
          IN /\ typed.kind = lowered.kind
             /\ typed.inventory = lowered.inventory
             /\ typed.kind = "serving"
                => /\ typed.target_pose = lowered.target_pose
                   /\ typed.remaining = lowered.remaining

\* 'Coke' is about to be served from the second coke slot while 'FANTA'
\* would find fanta out of stock and 'STING' is unknown
C19_Witness ==
    /\ program = "mcp" /\ pc = "dispatch" /\ tool = "serve_drink"
    /\ beverage = Coke
    /\ ServeDecision(inventory, initialized, Coke).kind = "serving"
    /\ ServeDecision(inventory, initialized, Coke).target_pose = COKE_1
    /\ ServeDecision(inventory, initialized, FANTA).kind = "out_of_stock"
    /\ ServeDecision(inventory, initialized, STING).kind = "unknown"

\* the report has been returned by check_inventory
C20_Reported ==
    /\ program = "mcp" /\ pc = "idle" /\ tool = "check_inventory"
    /\ outcome.reason \notin {"none", "init_failed"}

\* the beverages of the initial configuration in alphabetical order, as
\* keys and as the report spells them
C20_Keys == <<coke, fanta, redbull>>
C20_Names ==
    <<Coke, <<"F", "a", "n", "t", "a">>,
      <<"R", "e", "d", "b", "u", "l", "l">>>>

\* C20: the report of check_inventory has one line per beverage of the
\* initial configuration, in alphabetical order, each with the current
\* length of the beverage's sequence and marked available exactly when that
\* is more than 0; before any serve the counts are coke 2, fanta 1,
\* redbull 2, and after two coke serves coke is 0 and unavailable.
C20_InventoryReport ==
    C20_Reported
    => /\ outcome.reason = "inventory"
       /\ Len(outcome.lines) = 3
       /\ \A i \in 1..3 :
             /\ outcome.lines[i].name = C20_Names[i]
             /\ outcome.lines[i].count = Len(inventory[C20_Keys[i]])
             /\ outcome.lines[i].status = (Len(inventory[C20_Keys[i]]) > 0)
       /\ served = <<>>
          => /\ outcome.lines[1].count = 2
             /\ outcome.lines[2].count = 1
             /\ outcome.lines[3].count = 2
       /\ Count(coke, served) >= 2
          => /\ outcome.lines[1].count = 0
             /\ outcome.lines[1].status = FALSE
       /\ served = <<coke, coke>>
          => /\ outcome.lines[2].count = 1
             /\ outcome.lines[3].count = 2

\* the report after two coke serves
C20_Witness ==
    /\ C20_Reported /\ served = <<coke, coke>>
    /\ outcome.lines[1] = [status |-> FALSE, name |-> Coke, count |-> 0]
    /\ outcome.lines[3].status

\* the configuration the inventory of the running program was created from
C21_Initial == IF program = "voice" THEN INVENTORY ELSE INITIAL_INVENTORY

\* C21: every beverage's sequence is its initial sequence without some
\* leading poses; while the k-th serve of a beverage that was in stock is in
\* progress its pick pose is the k-th pose of the initial sequence, the
\* beverage's sequence is what it was before the serve without its head, and
\* every other sequence is what it was.
C21_HeadFirst ==
    /\ \A b \in DOMAIN inventory :
          \E n \in 0..Len(C21_Initial[b]) :
             inventory[b] = SubSeq(C21_Initial[b], n + 1, Len(C21_Initial[b]))
    /\ pc \in {"serve", "recover"}
       => LET k == Count(beverage, served)
          IN /\ k \in 1..Len(C21_Initial[beverage])
             /\ target_pose = C21_Initial[beverage][k]
             /\ inventory[beverage] = Tail(stockBefore[beverage])
             /\ \A b \in DOMAIN inventory \ {beverage} :
                   inventory[b] = stockBefore[b]

\* the second serve of a two-slot beverage is under way with the second pose
C21_Witness ==
    /\ pc = "serve" /\ step > 1
    /\ Count(beverage, served) = 2
    /\ target_pose = C21_Initial[beverage][2]
    /\ inventory[beverage] = <<>>

\* go_home has returned to its caller
C22_Returned ==
    /\ program = "mcp" /\ pc = "idle" /\ tool = "go_home"
    /\ outcome.reason \notin {"none", "init_failed"}

\* C22: when go_home has returned it has issued one Move to the home pose
\* and nothing else if the object was initialized, with a success text when
\* the move succeeded and a failure text when it failed, and no command at
\* all if the object was not initialized; no step of go_home changes the
\* inventory, the gripper lines or the flag.
C22_GoHomeFrame ==
    /\ [](C22_Returned
             => /\ outcome.reason \in {"not_initialized", "home",
                                        "go_home_failed"}
                /\ outcome.reason = "not_initialized"
                   => ~initialized /\ trace = <<>>
                /\ outcome.reason = "home"
                   => /\ initialized /\ outcome.ret
                      /\ trace = <<Move(<<START_POSE>>)>>
                      /\ armAt = START_POSE
                /\ outcome.reason = "go_home_failed"
                   => /\ initialized /\ ~outcome.ret
                      /\ trace = <<Move(<<START_POSE>>)>>)
    /\ [][(program = "mcp" /\ tool = "go_home"
               /\ pc \in {"dispatch", "go_home"})
             => /\ UNCHANGED <<inventory, tool_out, initialized>>
                /\ pc' \in {"go_home", "idle"}]_vars

\* go_home was called on an object whose initialize had failed: it returned
\* the not-initialized text and issued nothing
C22_Witness ==
    /\ C22_Returned /\ outcome.reason = "not_initialized"
    /\ failures = 1 /\ DOMAIN inventory # {} /\ trace = <<>>

\* calls a serve can still await: the rest of its try block and the one
\* recovery move, or the recovery move alone
C24_Measure ==
    IF pc = "serve" THEN Len(PipelineOf) - step + 2
    ELSE IF pc = "recover" THEN 1 ELSE 0

C24_Acted == trace' # trace \/ pc' # pc \/ step' # step

\* C24: a serve awaits the calls of its pipeline in order, each once; every
\* call it awaits brings it nearer its return (no call is awaited twice),
\* whatever the call's result, and it leaves only by returning a result to
\* its caller: success after the last call, the error result after the one
\* recovery move, whether that move succeeded or failed.
C24_ServeReturns ==
    /\ [](pc = "serve" => /\ step \in 1..Len(PipelineOf)
                          /\ Len(trace) = step - 1)
    /\ [](pc = "recover" => Len(trace) <= Len(PipelineOf))
    /\ [][(pc \in {"serve", "recover"} /\ C24_Acted)
            => /\ C24_Measure' < C24_Measure
               /\ Len(trace') = Len(trace) + 1
               /\ \/ pc' \in {"serve", "recover"}
                  \/ /\ Returned'
                     /\ outcome'.reason \in {"served", "error"}
                     /\ outcome'.ret = (outcome'.reason = "served")]_vars

\* a serve returned its error result after a call past the first move had
\* failed and the recovery move had failed too
C24_Witness ==
    /\ Returned /\ outcome.reason = "error"
    /\ outcome.e[1] > 1 /\ outcome.recovery = "failed"
    /\ Len(trace) = outcome.e[1] + 1

C25_IsWrite(p, k) == k \in 1..Len(p) /\ p[k].cmd = "write"

\* the first Move of pipeline p
C25_FirstMove(p) ==
    CHOOSE k \in 1..Len(p) :
        /\ p[k].cmd = "move"
        /\ \A j \in 1..(k - 1) : p[j].cmd # "move"

\* the Actuate steps of pipeline p: where a run of writes begins, after the
\* first Move
C25_ActuatesOf(p) ==
    LET first == C25_FirstMove(p)
    IN {k \in (first + 1)..Len(p) :
           C25_IsWrite(p, k) /\ ~C25_IsWrite(p, k - 1)}

\* the Actuate steps of the pipeline of the current serve
C25_Actuates == C25_ActuatesOf(PipelineOf)

\* the last write of the Actuate of p that begins at k
C25_End(p, k) ==
    CHOOSE j \in k..Len(p) :
        /\ \A i \in k..j : C25_IsWrite(p, i)
        /\ ~C25_IsWrite(p, j + 1)

\* C25: in a serve, each Actuate is two writes, first the one that drops a
\* line and then the one that asserts the other line; the grip and the
\* release assert opposite lines; and when an Actuate has completed exactly
\* the line it asserted is asserted.
C25_ActuatePolarity ==
    pc = "serve"
    => LET p == PipelineOf
           acts == C25_ActuatesOf(p)
       IN /\ Cardinality(acts) = 2
          /\ \A k \in acts :
                /\ C25_End(p, k) = k + 1
                /\ p[k].value = FALSE
                /\ p[k + 1].value = TRUE
                /\ p[k].line # p[k + 1].line
          /\ \A k, j \in acts :
                k # j => /\ p[k + 1].line = p[j].line
                         /\ p[j + 1].line = p[k].line
          /\ (step - 2) \in acts
                => /\ tool_out[p[step - 1].line]
                   /\ ~tool_out[p[step - 2].line]

\* the release of a serve has completed: the line the grip had asserted is
\* down and the other one is up
C25_Witness ==
    /\ pc = "serve" /\ (step - 2) \in C25_Actuates
    /\ \A k \in C25_Actuates : k <= step - 2
    /\ armAt \in {customer, CUSTOMER}
    /\ tool_out[PipelineOf[step - 1].line]

\* the inventory the program that runs was configured with
C26_Configured == IF program = "voice" THEN INVENTORY ELSE INITIAL_INVENTORY

\* the slots popped so far: key and position in the configured sequence
C26_Picked ==
    {s \in UNION {{<<k, i>> : i \in 1..Len(C26_Configured[k])} :
                     k \in DOMAIN inventory} :
        s[2] <= Len(C26_Configured[s[1]]) - Len(inventory[s[1]])}

\* C26: no two slots popped so far hold the same pick pose.
C26_NoPoseTwice ==
    \A s, t \in C26_Picked :
        s # t => C26_Configured[s[1]][s[2]] # C26_Configured[t[1]][t[2]]

\* stop() has deleted the recorder and both engines (lines 110-113)
C27_Released ==
    deletes.recorder >= 1 /\ deletes.porcupine >= 1 /\ deletes.rhino >= 1

\* C27: once stop() has deleted the recorder and the engines, the worker
\* enters no read, passes no frame to porcupine.process or rhino.process
\* and puts no token on the queue.
C27_NoUseAfterRelease ==
    [][C27_Released
         => /\ ~(wpc = "loop" /\ wpc' = "read")
            /\ ~(wpc = "process" /\ wpc' # "process")
            /\ produced' = produced]_vars

\* a serve of the first task (resp. of the second) holds a pose and has not
\* returned
C28_FirstServing == pc \in {"serve", "recover"}
C28_SecondServing == other.pc \in {"serve", "recover"}

\* two serves that overlap were handed different poses
C28_DistinctPoses ==
    (C28_FirstServing /\ C28_SecondServing)
    => target_pose # other.target_pose

\* each of the two serves has had its first step executed and still has
\* steps to issue: a step of one falls between two steps of the other
C28_Interleaved ==
    /\ C28_FirstServing /\ (pc = "serve" => step > 1)
    /\ C28_SecondServing /\ (other.pc = "serve" => other.step > 1)

\* C28: two overlapping serve_drink calls never hold the same pose, and no
\* step of one is issued between the first and the last step of the other.
C28_OverlapSafe == C28_DistinctPoses /\ ~C28_Interleaved

\* the line an Actuate asserts: the line of its write of True
C29_Asserted(writes) ==
    LET i == CHOOSE j \in 1..Len(writes) : writes[j].value
    IN writes[i].line

\* the grip and the release of RobotBartender.serve_beverage (mcp lines
\* 141-142 and 155-156)
C29_McpGrip == SubSeq(McpPipeline(target_pose), 2, 3)
C29_McpRelease == SubSeq(McpPipeline(target_pose), 7, 8)

\* the Actuate that has just completed is the grip of the serve
C29_GripDone == \A k \in C25_Actuates : k >= step - 2

\* C29: in either program, when the grip of a serve has completed the line
\* that close_grippers asserts and the line that the grip of mcp_bartender
\* asserts are one line, and it is up; likewise for the release, with
\* open_grippers and the release of mcp_bartender.
C29_SamePolarity ==
    (pc = "serve" /\ (step - 2) \in C25_Actuates)
    => IF C29_GripDone
       THEN /\ C29_Asserted(close_grippers) = C29_Asserted(C29_McpGrip)
            /\ tool_out[C29_Asserted(close_grippers)]
       ELSE /\ C29_Asserted(open_grippers) = C29_Asserted(C29_McpRelease)
            /\ tool_out[C29_Asserted(open_grippers)]

\* the threads that have not left _listen_loop
C30_LiveWorkers ==
    {i \in 1..Len(objects.threads) : objects.threads[i] # "done"}

\* the recorders on which delete() was never called
C30_Unreleased ==
    {i \in 1..Len(objects.recorders) : objects.recorders[i] = "open"}

\* C30: whatever start() and stop() calls are made on one VoiceListener, at
\* most one of its threads is in the listen loop and at most one of its
\* recorders is unreleased, and a start() made while self.running creates
\* neither a thread nor a recorder.
C30_OneWorkerOneRecorder ==
    /\ [](Cardinality(C30_LiveWorkers) <= 1)
    /\ [](Cardinality(C30_Unreleased) <= 1)
    /\ [][(objects.caller = "idle" /\ listener.running)
            => /\ Len(objects'.threads) = Len(objects.threads)
               /\ Len(objects'.recorders) = Len(objects.recorders)]_vars

\* C23: while nobody interrupts the program, once the orchestrator is ready
\* the i-th token put on the queue is eventually handed to serve_beverage,
\* whatever became of the serves before it (rejected, aborted, recovery
\* failed).
C23_EveryTokenServed ==
    \A i \in 1..MaxProduced :
       (homed /\ Len(produced) >= i) ~> (Len(served) >= i)

\* the second token was handed to serve_beverage after the serve of the
\* first had failed at a step and its recovery move had failed as well
C23_Witness ==
    /\ program = "voice" /\ homed /\ failures = 2
    /\ Len(served) = 2 /\ pc = "serve" /\ step = 1
    /\ armAt # start_pose

====
